---- MODULE Spec2Model ----
(***************************************************************************)
(* ex-lite: helpers for an Express application.  One request travels the   *)
(* chain                                                                   *)
(*     validate.<part>(schema) -> wrapper(handler) -> notFoundHandler()    *)
(*                                                -> errorHandler(isDev)   *)
(* The model follows the request through validateFn, the wrapped handler   *)
(* (synchronous return / throw, or a promise that settles later), the     *)
(* result dispatch handleResult, the continuation next and the terminal    *)
(* handlers (Spec).  A second specification, SpecErrors, calls the         *)
(* functions of errors.ts on their own: getErrorName, the constructors and *)
(* toJson.                                                                 *)
(***************************************************************************)
EXTENDS Integers, Sequences, FiniteSets, TLC

VARIABLES
    revision,   \* which revision of guard.ts is deployed ("guard.ts" | "part_001")
    isDev,      \* argument of errorHandler(isDev); FALSE for guard.ts, which has none
    vpart,      \* request part the validation middleware guards
    schema,     \* schema given to validate.<part>
    req,        \* the request: body, query, params, method, originalUrl
    res,        \* the response: statusCode, headersSent, body, writes
    log,        \* calls observed on res / next / the handlers, in order
    pc,         \* where the request is in the chain
    h,          \* what the wrapped handler did (its effects and its outcome)
    promise,    \* the promise of .then(...) / .catch(next) being followed
    made        \* errors.ts used on its own: the last call and what it gave

vars == <<revision, isDev, vpart, schema, req, res, log, pc, h, promise, made>>

----------------------------------------------------------------------------
(* JavaScript values *)

Undefined == [kind |-> "undefined"]
Null == [kind |-> "null"]
ResObj == [kind |-> "res"]
Bool(b) == [kind |-> "boolean", val |-> b]
Num(n) == [kind |-> "number", val |-> n]
Str(s) == [kind |-> "string", val |-> s]
List(q) == [kind |-> "array", items |-> q]
Obj(fields) == [kind |-> "object", fields |-> fields]
PlainError(message, stack) ==
    [kind |-> "Error", message |-> message, stack |-> stack]

\* `if (x)`, `x && ...`: JavaScript truthiness
Truthy(v) ==
    CASE v.kind = "undefined" -> FALSE
      [] v.kind = "null" -> FALSE
      [] v.kind = "boolean" -> v.val
      [] v.kind = "number" -> v.val # 0
      [] v.kind = "string" -> v.val # ""
      [] OTHER -> TRUE

\* the value of `x.message` / `x.stack` for a thrown value x
PropMessage(x) ==
    IF x.kind \in {"Error", "HttpError"} THEN Str(x.message) ELSE Undefined

PropStack(x) ==
    IF x.kind \in {"Error", "HttpError"} THEN Str(x.stack) ELSE Undefined

----------------------------------------------------------------------------
(* errors.ts: getErrorName *)

UpperChars ==
    <<"A", "B", "C", "D", "E", "F", "G", "H", "I", "J", "K", "L", "M",
      "N", "O", "P", "Q", "R", "S", "T", "U", "V", "W", "X", "Y", "Z">>

LowerChars ==
    <<"a", "b", "c", "d", "e", "f", "g", "h", "i", "j", "k", "l", "m",
      "n", "o", "p", "q", "r", "s", "t", "u", "v", "w", "x", "y", "z">>

IndexIn(c, q) == CHOOSE i \in 1..Len(q) : q[i] = c

IsUpper(c) == \E i \in 1..Len(UpperChars) : UpperChars[i] = c
IsLower(c) == \E i \in 1..Len(LowerChars) : LowerChars[i] = c

toLowerChar(c) == IF IsUpper(c) THEN LowerChars[IndexIn(c, UpperChars)] ELSE c
toUpperChar(c) == IF IsLower(c) THEN UpperChars[IndexIn(c, LowerChars)] ELSE c

\* \w of a regular expression: letters, digits and the underscore
IsWordChar(c) ==
    \/ IsUpper(c)
    \/ IsLower(c)
    \/ c = "_"
    \/ c \in {"0", "1", "2", "3", "4", "5", "6", "7", "8", "9"}

\* .toLowerCase()
toLowerCase(q) == [i \in 1..Len(q) |-> toLowerChar(q[i])]

\* .replace(/_/g, ' ')
ReplaceUnderscores(q) == [i \in 1..Len(q) |-> IF q[i] = "_" THEN " " ELSE q[i]]

\* .replace(/\b\w/g, char => char.toUpperCase())
UpperAtWordStart(q) ==
    [i \in 1..Len(q) |->
        IF IsWordChar(q[i]) /\ (i = 1 \/ ~IsWordChar(q[i - 1]))
        THEN toUpperChar(q[i])
        ELSE q[i]]

\* .replace(/\s+/g, '')
RemoveSpaces(q) == SelectSeq(q, LAMBDA c : c # " ")

\* name.endsWith('Error')
EndsWithError(q) ==
    /\ Len(q) >= 5
    /\ SubSeq(q, Len(q) - 4, Len(q)) = <<"E", "r", "r", "o", "r">>

RECURSIVE Join(_)
Join(q) == IF q = <<>> THEN "" ELSE Head(q) \o Join(Tail(q))

\* http-status: the `<code>_NAME` entries of the codes the model uses
HttpStatusName ==
    [c \in {400, 401, 402, 403, 404, 405, 408, 409, 410, 418,
            422, 429, 431, 451, 500, 501, 502, 503, 504, 505, 511} |->
        CASE c = 400 -> <<"B", "A", "D", "_", "R", "E", "Q", "U", "E", "S", "T">>
          [] c = 401 -> <<"U", "N", "A", "U", "T", "H", "O", "R", "I", "Z", "E",
                          "D">>
          [] c = 402 -> <<"P", "A", "Y", "M", "E", "N", "T", "_", "R", "E", "Q",
                          "U", "I", "R", "E", "D">>
          [] c = 403 -> <<"F", "O", "R", "B", "I", "D", "D", "E", "N">>
          [] c = 404 -> <<"N", "O", "T", "_", "F", "O", "U", "N", "D">>
          [] c = 405 -> <<"M", "E", "T", "H", "O", "D", "_", "N", "O", "T", "_",
                          "A", "L", "L", "O", "W", "E", "D">>
          [] c = 408 -> <<"R", "E", "Q", "U", "E", "S", "T", "_", "T", "I", "M",
                          "E", "O", "U", "T">>
          [] c = 409 -> <<"C", "O", "N", "F", "L", "I", "C", "T">>
          [] c = 410 -> <<"G", "O", "N", "E">>
          [] c = 418 -> <<"I", "M", "_", "A", "_", "T", "E", "A", "P", "O", "T">>
          [] c = 422 -> <<"U", "N", "P", "R", "O", "C", "E", "S", "S", "A", "B",
                          "L", "E", "_", "E", "N", "T", "I", "T", "Y">>
          [] c = 429 -> <<"T", "O", "O", "_", "M", "A", "N", "Y", "_", "R", "E",
                          "Q", "U", "E", "S", "T", "S">>
          [] c = 431 -> <<"R", "E", "Q", "U", "E", "S", "T", "_", "H", "E", "A",
                          "D", "E", "R", "_", "F", "I", "E", "L", "D", "S", "_",
                          "T", "O", "O", "_", "L", "A", "R", "G", "E">>
          [] c = 451 -> <<"U", "N", "A", "V", "A", "I", "L", "A", "B", "L", "E",
                          "_", "F", "O", "R", "_", "L", "E", "G", "A", "L", "_",
                          "R", "E", "A", "S", "O", "N", "S">>
          [] c = 500 -> <<"I", "N", "T", "E", "R", "N", "A", "L", "_", "S", "E",
                          "R", "V", "E", "R", "_", "E", "R", "R", "O", "R">>
          [] c = 501 -> <<"N", "O", "T", "_", "I", "M", "P", "L", "E", "M", "E",
                          "N", "T", "E", "D">>
          [] c = 502 -> <<"B", "A", "D", "_", "G", "A", "T", "E", "W", "A", "Y">>
          [] c = 503 -> <<"S", "E", "R", "V", "I", "C", "E", "_", "U", "N", "A",
                          "V", "A", "I", "L", "A", "B", "L", "E">>
          [] c = 504 -> <<"G", "A", "T", "E", "W", "A", "Y", "_", "T", "I", "M",
                          "E", "O", "U", "T">>
          [] c = 505 -> <<"H", "T", "T", "P", "_", "V", "E", "R", "S", "I", "O",
                          "N", "_", "N", "O", "T", "_", "S", "U", "P", "P", "O",
                          "R", "T", "E", "D">>
          [] c = 511 -> <<"N", "E", "T", "W", "O", "R", "K", "_", "A", "U", "T",
                          "H", "E", "N", "T", "I", "C", "A", "T", "I", "O", "N",
                          "_", "R", "E", "Q", "U", "I", "R", "E", "D">>]

\* a chain that appends the suffix without the endsWith test
FormatName_AlwaysAppends(q) ==
    LET name == RemoveSpaces(UpperAtWordStart(ReplaceUnderscores(toLowerCase(q))))
    IN  Join(name) \o "Error"

\* the chain .toLowerCase().replace(...).replace(...).replace(...) and the
\* suffix, applied to a registered name
FormatName(q) ==
    LET name == RemoveSpaces(UpperAtWordStart(ReplaceUnderscores(toLowerCase(q))))
    IN  IF EndsWithError(name) THEN Join(name) ELSE Join(name) \o "Error"

\* httpStatus[`${status}_NAME`] is undefined for a code the library does not
\* register, and undefined.toLowerCase() throws a TypeError
getErrorNameThrows(status) ==
    /\ ~(status < 400 \/ status > 511)
    /\ status \notin DOMAIN HttpStatusName

FormattedNames == [c \in DOMAIN HttpStatusName |-> FormatName(HttpStatusName[c])]

\* a getErrorName whose fallback is the bare suffix
getErrorName_BareSuffix(status) ==
    IF status < 400 \/ status > 511
    THEN "Error"
    ELSE FormattedNames[status]

getErrorName(status) ==
    IF status < 400 \/ status > 511
    THEN "HttpError"
    ELSE FormattedNames[status]

----------------------------------------------------------------------------
(* errors.ts: HttpError and the subtypes the middleware uses *)

\* a constructor that keeps the empty message of super() for a list
HttpError_KeepsEmptyMessage(msg, status, detail) ==
    LET name == getErrorName(status)
    IN  [kind |-> "HttpError",
         name |-> name,
         message |-> IF msg.kind = "string" THEN msg.val ELSE "",
         stack |-> "stack:" \o name,
         msg |-> msg,
         status |-> status,
         detail |-> detail]

\* new HttpError(msg, status, detail); msg and detail are JavaScript values
HttpError(msg, status, detail) ==
    LET name == getErrorName(status)
    IN  [kind |-> "HttpError",
         name |-> name,
         message |-> IF msg.kind = "string" THEN msg.val ELSE name,
         stack |-> "stack:" \o name,
         msg |-> msg,
         status |-> status,
         detail |-> detail]

\* a toJson that reports the display message instead of msg
HttpErrorToJson_DisplayMessage(e) ==
    IF Truthy(e.detail)
    THEN [status |-> e.status, error |-> e.name, message |-> Str(e.message),
          detail |-> e.detail]
    ELSE [status |-> e.status, error |-> e.name, message |-> Str(e.message)]

\* HttpError.prototype.toJson
HttpErrorToJson(e) ==
    IF Truthy(e.detail)
    THEN [status |-> e.status, error |-> e.name, message |-> e.msg,
          detail |-> e.detail]
    ELSE [status |-> e.status, error |-> e.name, message |-> e.msg]

BadRequestError(message, detail) == HttpError(message, 400, detail)
\* a ConflictError copied from BadRequestError with its status left in
ConflictError_As400(message, detail) == HttpError(message, 400, detail)

ConflictError(message, detail) == HttpError(message, 409, detail)
ForbiddenError(message, detail) == HttpError(message, 403, detail)
NotFoundError(message, detail) == HttpError(message, 404, detail)
UnauthorizedError(message, detail) == HttpError(message, 401, detail)
InternalServerError(message, detail) == HttpError(message, 500, detail)

\* the TypeError of undefined.toLowerCase()
NameTypeError ==
    [kind |-> "Error",
     message |-> "Cannot read properties of undefined (reading 'toLowerCase')",
     stack |-> "stack:TypeError"]

\* `new cls(...)` as an expression that returns the error or throws: the
\* status parameter defaults to 500 when the argument is undefined, and
\* getErrorName runs inside the constructor
Construct(cls, msg, statusArg, detail) ==
    LET status == IF statusArg.kind = "undefined" THEN 500 ELSE statusArg.val
    IN  IF cls = "HttpError" /\ getErrorNameThrows(status)
        THEN [raised |-> TRUE, err |-> NameTypeError]
        ELSE [raised |-> FALSE,
              err |-> CASE cls = "HttpError" -> HttpError(msg, status, detail)
                        [] cls = "BadRequestError" -> BadRequestError(msg, detail)
                        [] cls = "ConflictError" -> ConflictError(msg, detail)
                        [] cls = "ForbiddenError" -> ForbiddenError(msg, detail)
                        [] cls = "NotFoundError" -> NotFoundError(msg, detail)
                        [] cls = "UnauthorizedError" ->
                               UnauthorizedError(msg, detail)
                        [] cls = "InternalServerError" ->
                               InternalServerError(msg, detail)]

----------------------------------------------------------------------------
(* api-res.ts: ApiRes *)

ApiRes(result, status, message) ==
    [kind |-> "ApiRes", result |-> result, status |-> status,
     message |-> message]

\* a toJson that reports the result under the key data
ApiResToJson_ResultAsData(a) ==
    [status |-> a.status, message |-> a.message, data |-> a.result]

\* ApiRes.prototype.toJson
ApiResToJson(a) ==
    [status |-> a.status, message |-> a.message, result |-> a.result]

\* the revisions of api-res.ts that have toJson, named by their first line
ApiResRevisions == {"api-res.ts:40", "api-res.ts:79"}

\* {}
EmptyObj == Obj(<<>>)

\* new ApiRes(result, status, message): a parameter that is undefined takes
\* its default ({}, 200, and the revision's default message)
ApiResNew(rev, result, status, message) ==
    ApiRes(IF result.kind = "undefined" THEN EmptyObj ELSE result,
           IF status.kind = "undefined" THEN 200 ELSE status.val,
           IF message.kind = "undefined"
           THEN (IF rev = "api-res.ts:40"
                 THEN "success"
                 ELSE "Operation successful")
           ELSE message.val)

\* an ok that does not pass its message on
ApiResOk_DropsMessage(rev, result, message) ==
    IF rev = "api-res.ts:40"
    THEN ApiResNew(rev, result, Num(200), Undefined)
    ELSE ApiResNew(rev, result, Num(200),
                   Str("Request processed successfully"))

\* ok(result, message)
ApiResOk(rev, result, message) ==
    IF rev = "api-res.ts:40"
    THEN ApiResNew(rev, result, Num(200), message)
    ELSE ApiResNew(rev, result, Num(200),
                   IF message.kind = "undefined"
                   THEN Str("Request processed successfully")
                   ELSE message)

\* a created copied from ok with httpStatus.OK left in
ApiResCreated_As200(rev, result, message) ==
    IF rev = "api-res.ts:40"
    THEN ApiResNew(rev, result, Num(200),
                   IF Truthy(message)
                   THEN message
                   ELSE Str("resource created successfully"))
    ELSE ApiResNew(rev, result, Num(200),
                   IF message.kind = "undefined"
                   THEN Str("Resource created successfully")
                   ELSE message)

\* created(result, message)
ApiResCreated(rev, result, message) ==
    IF rev = "api-res.ts:40"
    THEN ApiResNew(rev, result, Num(201),
                   IF Truthy(message)
                   THEN message
                   ELSE Str("resource created successfully"))
    ELSE ApiResNew(rev, result, Num(201),
                   IF message.kind = "undefined"
                   THEN Str("Resource created successfully")
                   ELSE message)

\* {data, ...meta}: the spread written after data
SpreadMeta_MetaLast(meta, data) ==
    Obj([k \in DOMAIN meta.fields \cup {"data"} |->
            IF k \in DOMAIN meta.fields THEN meta.fields[k] ELSE data])

\* {...meta, data}
SpreadMeta(meta, data) ==
    Obj([k \in DOMAIN meta.fields \cup {"data"} |->
            IF k = "data" THEN data ELSE meta.fields[k]])

\* paginated(data, meta, message)
ApiResPaginated(rev, data, meta, message) ==
    IF rev = "api-res.ts:40"
    THEN ApiResNew(rev, SpreadMeta(meta, data), Num(200), message)
    ELSE ApiResNew(rev, SpreadMeta(meta, data), Num(200),
                   IF message.kind = "undefined"
                   THEN Str("Data retrieved successfully")
                   ELSE message)

----------------------------------------------------------------------------
(* express: the response object and the calls the library makes on it.     *)
(* m is the pair [res, log] a call acts on; a call that can throw returns  *)
(* [raised, err, m].                                                       *)

Ev(ev, by, arg) == [ev |-> ev, by |-> by, arg |-> arg]

Logged(m, ev, by, arg) == [m EXCEPT !.log = Append(@, Ev(ev, by, arg))]

Returned(m) == [raised |-> FALSE, err |-> Undefined, m |-> m]
Raised(m, err) == [raised |-> TRUE, err |-> err, m |-> m]

\* ERR_HTTP_HEADERS_SENT, thrown by a write to a response already sent
HeadersSentError ==
    PlainError("Cannot set headers after they are sent to the client",
               "stack:ERR_HTTP_HEADERS_SENT")

\* res.status(code)
ResStatus(m, by, code) ==
    Logged([m EXCEPT !.res.statusCode = code], "status", by, Num(code))

\* a response that lets itself be written again after it was sent
ResWrite_WritesAgain(m, by, how, payload) ==
    Returned(Logged([m EXCEPT !.res.headersSent = TRUE,
                              !.res.body = [how |-> how, payload |-> payload],
                              !.res.writes = @ + 1],
                    how, by, payload))

\* res.json(payload) (how = "json") and res.send(payload) (how = "send")
ResWrite(m, by, how, payload) ==
    IF m.res.headersSent
    THEN Raised(Logged(m, "raise", by, [how |-> how, payload |-> payload]),
                HeadersSentError)
    ELSE Returned(Logged([m EXCEPT !.res.headersSent = TRUE,
                                   !.res.body = [how |-> how, payload |-> payload],
                                   !.res.writes = @ + 1],
                         how, by, payload))

\* res.status(code).json(payload)
ResStatusJson(m, by, code, payload) ==
    ResWrite(ResStatus(m, by, code), by, "json", payload)

----------------------------------------------------------------------------
(* guard.ts: errorHandler and notFoundHandler *)

\* an errorHandler without the `err instanceof HttpError` branch
errorHandler_NoInstanceTest(dev, err, m) ==
    IF err.kind \in {"undefined", "null"}
    THEN Raised(m, PlainError("Cannot read properties of " \o err.kind,
                              "stack:TypeError"))
    ELSE LET error == InternalServerError(PropMessage(err),
                                          IF dev THEN PropStack(err) ELSE Null)
         IN  ResStatusJson(m, "errorHandler", error.status,
                           HttpErrorToJson(error))

\* an errorHandler that passes err.stack as the detail whatever isDev is
errorHandler_AlwaysStack(dev, err, m) ==
    IF err.kind = "HttpError"
    THEN ResStatusJson(m, "errorHandler", err.status, HttpErrorToJson(err))
    ELSE IF err.kind \in {"undefined", "null"}
    THEN Raised(m, PlainError("Cannot read properties of " \o err.kind,
                              "stack:TypeError"))
    ELSE LET error == InternalServerError(PropMessage(err), PropStack(err))
         IN  ResStatusJson(m, "errorHandler", error.status,
                           HttpErrorToJson(error))

\* errorHandler(dev)(err, req, res, next)
errorHandler(dev, err, m) ==
    IF err.kind = "HttpError"
    THEN ResStatusJson(m, "errorHandler", err.status, HttpErrorToJson(err))
    ELSE IF err.kind \in {"undefined", "null"}
    THEN Raised(m, PlainError("Cannot read properties of " \o err.kind,
                              "stack:TypeError"))
    ELSE LET error == InternalServerError(PropMessage(err),
                                          IF dev THEN PropStack(err) ELSE Null)
         IN  ResStatusJson(m, "errorHandler", error.status,
                           HttpErrorToJson(error))

\* a notFoundHandler whose message leaves the method out
notFoundHandler_OmitsMethod(rq, m) ==
    LET err == NotFoundError(
                   Str("Cannot " \o rq.originalUrl),
                   Obj([url |-> rq.originalUrl, method |-> rq.method]))
    IN  ResStatusJson(m, "notFoundHandler", err.status, HttpErrorToJson(err))

\* notFoundHandler(): Router().all('*', (req, res) => ...)
notFoundHandler(rq, m) ==
    LET err == NotFoundError(
                   Str("Cannot " \o rq.method \o " " \o rq.originalUrl),
                   Obj([url |-> rq.originalUrl, method |-> rq.method]))
    IN  ResStatusJson(m, "notFoundHandler", err.status, HttpErrorToJson(err))

----------------------------------------------------------------------------
(* express: what next(err) does after the wrapped handler's layer, with    *)
(* app.use(notFoundHandler()) and app.use(errorHandler()) mounted after    *)
(* the routes.                                                             *)

\* nothing is left in the stack: express' final handler ends the request
FinalHandler(m, err) ==
    IF m.res.headersSent
    THEN Logged(m, "finalhandler", "express", err)
    ELSE (ResStatusJson(Logged(m, "finalhandler", "express", err),
                        "express", 500, [error |-> "express default"])).m

\* the error-handling layer: errorHandler(isDev)
ErrorLayer(m, err) ==
    LET r == errorHandler(isDev, err, Logged(m, "errorHandler", "express", err))
    IN  IF r.raised THEN FinalHandler(r.m, r.err) ELSE r.m

\* the next request layer: notFoundHandler()
NotFoundLayer(m) ==
    LET r == notFoundHandler(req, Logged(m, "notFoundHandler", "express", Undefined))
    IN  IF r.raised THEN ErrorLayer(r.m, r.err) ELSE r.m

\* next(err): an argument that is not falsy makes the request an error and
\* goes to the error-handling layer; otherwise the next request layer runs
ExpressNext(m, by, err) ==
    LET m1 == Logged(m, "next", by, err)
    IN  IF Truthy(err) THEN ErrorLayer(m1, err) ELSE NotFoundLayer(m1)

----------------------------------------------------------------------------
(* factory.ts: handleResult and wrapper *)

\* handleResult without the `result !== res` test
handleResult_NoResTest(result, m) ==
    IF result.kind = "ApiRes"
    THEN ResStatusJson(m, "adapter", result.status, ApiResToJson(result))
    ELSE IF Truthy(result)
    THEN ResWrite(m, "adapter", "send", result)
    ELSE Returned(m)

\* handleResult that writes the envelope without setting its status
handleResult_NoStatus(result, m) ==
    IF result.kind = "ApiRes"
    THEN ResWrite(m, "adapter", "json", ApiResToJson(result))
    ELSE IF Truthy(result) /\ result # ResObj
    THEN ResWrite(m, "adapter", "send", result)
    ELSE Returned(m)

\* handleResult that answers every plain value through res.status(200).json
handleResult_SetsStatus(result, m) ==
    IF result.kind = "ApiRes"
    THEN ResStatusJson(m, "adapter", result.status, ApiResToJson(result))
    ELSE IF Truthy(result) /\ result # ResObj
    THEN ResStatusJson(m, "adapter", 200, result)
    ELSE Returned(m)

\* handleResult(result, res)
handleResult(result, m) ==
    IF result.kind = "ApiRes"
    THEN ResStatusJson(m, "adapter", result.status, ApiResToJson(result))
    ELSE IF Truthy(result) /\ result # ResObj
    THEN ResWrite(m, "adapter", "send", result)
    ELSE Returned(m)

\* catch (error) { next(); }: the fault is not handed on
wrapperCatch_DropsFault(m, error) == ExpressNext(m, "adapter", Undefined)

\* wrapper: catch (error) { next(error); }
wrapperCatch(m, error) == ExpressNext(m, "adapter", error)

\* wrapper: else handleResult(result, res), inside the try block
\* a wrapper that continues the chain itself after the dispatch
wrapperSyncResult_AlwaysNext(m, result) ==
    LET r == handleResult(result, Logged(m, "handleResult", "adapter", result))
    IN  IF r.raised
        THEN wrapperCatch(r.m, r.err)
        ELSE ExpressNext(r.m, "adapter", Undefined)

wrapperSyncResult(m, result) ==
    LET r == handleResult(result, Logged(m, "handleResult", "adapter", result))
    IN  IF r.raised THEN wrapperCatch(r.m, r.err) ELSE r.m

\* a reaction that swallows what handleResult throws
wrapperThen_Swallows(m, p) ==
    IF p.state = "fulfilled"
    THEN LET r == handleResult(p.value,
                               Logged(m, "handleResult", "adapter", p.value))
         IN  [m |-> r.m, promise |-> [state |-> "fulfilled", value |-> Undefined]]
    ELSE [m |-> m, promise |-> p]

\* wrapper: result.then((value) => handleResult(value, res)), the reaction
\* to the handler's promise p; gives the promise that .then returns
wrapperThen(m, p) ==
    IF p.state = "fulfilled"
    THEN LET r == handleResult(p.value,
                               Logged(m, "handleResult", "adapter", p.value))
         IN  IF r.raised
             THEN [m |-> r.m, promise |-> [state |-> "rejected", value |-> r.err]]
             ELSE [m |-> r.m, promise |-> [state |-> "fulfilled", value |-> Undefined]]
    ELSE [m |-> m, promise |-> p]

\* the chain without .catch(next)
wrapperPromiseCatch_Missing(m, p) == m

\* wrapper: .catch(next), the reaction to the promise p that .then returned
wrapperPromiseCatch(m, p) ==
    IF p.state = "rejected" THEN ExpressNext(m, "adapter", p.value) ELSE m

----------------------------------------------------------------------------
(* the wrapped handler: user code, any of these behaviours *)

\* the body a handler writes itself: res.status(200).json({...})
HandlerBody == [status |-> "success", data |-> "user"]

User == Obj([name |-> "user"])

\* values a handler returns or resolves to
HandlerValues ==
    {Undefined, Null, ResObj,
     ApiRes(User, 200, "User fetched successfully"),
     ApiRes(User, 201, "User created successfully"),
     Obj([message |-> "Hello World!"]),
     Str("Hello World!"), Str(""), Num(0), Bool(FALSE), Bool(TRUE)}

\* values a handler throws or rejects with
HandlerFaults ==
    {ForbiddenError(Str("User have not permission"), Undefined),
     HttpError(List(<<"Name is required", "Age is required">>), 400,
               Obj([field |-> "name"])),
     PlainError("db down", "stack:1"),
     PlainError("db down", "stack:2"),
     Str("boom"), Undefined, Null}

\* what the handler does itself before its outcome: an own write of the
\* response, then an own call of next()
HandlerEffects(m, wrote, callsNext) ==
    LET m1 == IF wrote
              THEN (ResStatusJson(m, "handler", 200, HandlerBody)).m
              ELSE m
    IN  IF callsNext THEN ExpressNext(m1, "handler", Undefined) ELSE m1

NoHandler ==
    [invoked |-> FALSE, wrote |-> FALSE, callsNext |-> FALSE,
     mode |-> "none", value |-> Undefined]

NoPromise == [state |-> "none", value |-> Undefined]

NothingMade == [op |-> "none"]

----------------------------------------------------------------------------
(* guard.ts: validateFn *)

Parts == {"body", "query", "params"}

Revisions == {"guard.ts", "part_001"}

\* the message of the BadRequestError validateFn builds
ValidationMessage(rev, type) ==
    IF rev = "guard.ts"
    THEN "req." \o type \o " fields validation error"
    ELSE "validation error occur from req." \o type \o " fields"

\* zod: schema.readonly().safeParse(raw)
SafeParse(sch, raw) ==
    IF raw \in DOMAIN sch
    THEN [success |-> TRUE, data |-> sch[raw], errors |-> <<>>]
    ELSE [success |-> FALSE, data |-> Undefined,
          errors |-> <<[code |-> "invalid_type", received |-> raw]>>]

\* schemas: the accepted raw values and the parsed data of each
Schemas ==
    {[x \in {"raw1"} |-> "parsed1"],
     [x \in {"raw1", "raw2"} |-> x]}

RawValues == {"raw1", "raw2"}

\* a failure branch that answers and still continues the chain
validateFail_Continues(rev, type, errors, m) ==
    LET err == BadRequestError(Str(ValidationMessage(rev, type)),
                               List(errors))
        r == ResStatusJson(m, "validate", err.status, HttpErrorToJson(err))
    IN  Logged(r.m, "next", "validate", Undefined)

\* a success branch that forgets req[type] = data
validateOk_KeepsRaw(type, data, rq) == rq

\* a success branch that stores the parsed data in every part
validateOk_AllParts(type, data, rq) ==
    [rq EXCEPT !.body = data, !.query = data, !.params = data]

\* validateFn(schema, type)(req, res, next), success branch: req[type] = data
validateOk(type, data, rq) == [rq EXCEPT ![type] = data]

\* validateFn(schema, type)(req, res, next), failure branch
validateFail(rev, type, errors, m) ==
    LET err == BadRequestError(Str(ValidationMessage(rev, type)),
                               List(errors))
    IN  (ResStatusJson(m, "validate", err.status, HttpErrorToJson(err))).m

----------------------------------------------------------------------------
(* the request as a state machine *)

M == [res |-> res, log |-> log]

\* a route guarded by validate.<part>(schema): the guarded part holds any raw
\* value, the two other parts hold a value the strict schema rejects
GuardedInit ==
    /\ pc = "validate"
    /\ vpart \in Parts
    /\ schema \in Schemas
    /\ \E raw \in RawValues :
          req.body = (IF vpart = "body" THEN raw ELSE "raw2")
          /\ req.query = (IF vpart = "query" THEN raw ELSE "raw2")
          /\ req.params = (IF vpart = "params" THEN raw ELSE "raw2")

\* a route with the wrapped handler alone
UnguardedInit ==
    /\ pc = "handler"
    /\ vpart = "none"
    /\ schema = <<>>
    /\ req.body = "raw1" /\ req.query = "raw1" /\ req.params = "raw1"

\* a request no route matches: the first layer that takes it is
\* notFoundHandler()
UnmatchedInit ==
    /\ pc = "unmatched"
    /\ vpart = "none"
    /\ schema = <<>>
    /\ req.body = "raw1" /\ req.query = "raw1" /\ req.params = "raw1"

Init ==
    /\ revision \in Revisions
    \* guard.ts's errorHandler takes no isDev and never reports the stack: it
    \* answers as errorHandler(false) does
    /\ isDev \in (IF revision = "part_001" THEN BOOLEAN ELSE {FALSE})
    /\ req \in [body : RawValues, query : RawValues, params : RawValues,
                method : {"GET", "POST"}, originalUrl : {"/x", "/user/1"}]
    /\ \/ /\ (req.method = "GET") = (req.originalUrl = "/x")
          /\ GuardedInit \/ UnguardedInit
       \/ UnmatchedInit
    /\ res = [statusCode |-> 200, headersSent |-> FALSE,
              body |-> [how |-> "none"], writes |-> 0]
    /\ log = <<>>
    /\ h = NoHandler
    /\ promise = NoPromise
    /\ made = NothingMade

\* a validateFn that calls next() before it looks at the parse result
ValidateFn_NextBeforeParse ==
    /\ pc = "validate"
    /\ LET p == SafeParse(schema, req[vpart])
       IN  /\ req' = IF p.success THEN validateOk(vpart, p.data, req) ELSE req
           /\ log' = Append(log, Ev("next", "validate", Undefined))
           /\ res' = res
           /\ pc' = "handler"
    /\ UNCHANGED <<made, revision, isDev, vpart, schema, h, promise>>

\* validateFn(schema, type)(req, res, next)
ValidateFn ==
    /\ pc = "validate"
    /\ LET p == SafeParse(schema, req[vpart])
       IN  IF p.success
           THEN /\ req' = validateOk(vpart, p.data, req)
                /\ log' = Append(log, Ev("next", "validate", Undefined))
                /\ res' = res
                /\ pc' = "handler"
           ELSE LET m == validateFail(revision, vpart, p.errors, M)
                IN  /\ res' = m.res
                    /\ log' = m.log
                    /\ req' = req
                    /\ pc' = "done"
    /\ UNCHANGED <<made, revision, isDev, vpart, schema, h, promise>>

\* wrapper(func)(req, res, next): func returns a value that is no promise
WrapperReturn ==
    /\ pc = "handler"
    /\ \E wrote \in BOOLEAN, callsNext \in BOOLEAN, v \in HandlerValues :
        LET m0 == Logged(M, "handler", "express", Undefined)
            m == wrapperSyncResult(HandlerEffects(m0, wrote, callsNext), v)
        IN  /\ h' = [invoked |-> TRUE, wrote |-> wrote, callsNext |-> callsNext,
                     mode |-> "return", value |-> v]
            /\ res' = m.res
            /\ log' = m.log
    /\ pc' = "done"
    /\ UNCHANGED <<made, revision, isDev, vpart, schema, req, promise>>

\* wrapper(func)(req, res, next): func throws
WrapperThrow ==
    /\ pc = "handler"
    /\ \E wrote \in BOOLEAN, callsNext \in BOOLEAN, f \in HandlerFaults :
        LET m0 == Logged(M, "handler", "express", Undefined)
            m == wrapperCatch(HandlerEffects(m0, wrote, callsNext), f)
        IN  /\ h' = [invoked |-> TRUE, wrote |-> wrote, callsNext |-> callsNext,
                     mode |-> "throw", value |-> f]
            /\ res' = m.res
            /\ log' = m.log
    /\ pc' = "done"
    /\ UNCHANGED <<made, revision, isDev, vpart, schema, req, promise>>

\* wrapper(func)(req, res, next): func returns a promise; .then and .catch
\* are attached and the call returns
WrapperPromise ==
    /\ pc = "handler"
    /\ h' = [NoHandler EXCEPT !.invoked = TRUE, !.mode = "pending"]
    /\ promise' = [state |-> "pending", value |-> Undefined]
    /\ log' = Append(log, Ev("handler", "express", Undefined))
    /\ pc' = "pending"
    /\ UNCHANGED <<made, revision, isDev, vpart, schema, req, res>>

\* the handler's promise is fulfilled with a value
HandlerResolves ==
    /\ pc = "pending"
    /\ \E wrote \in BOOLEAN, callsNext \in BOOLEAN, v \in HandlerValues :
        LET m == HandlerEffects(M, wrote, callsNext)
        IN  /\ h' = [invoked |-> TRUE, wrote |-> wrote, callsNext |-> callsNext,
                     mode |-> "resolve", value |-> v]
            /\ promise' = [state |-> "fulfilled", value |-> v]
            /\ res' = m.res
            /\ log' = m.log
    /\ pc' = "settled"
    /\ UNCHANGED <<made, revision, isDev, vpart, schema, req>>

\* the handler's promise is rejected with a reason
HandlerRejects ==
    /\ pc = "pending"
    /\ \E wrote \in BOOLEAN, callsNext \in BOOLEAN, f \in HandlerFaults :
        LET m == HandlerEffects(M, wrote, callsNext)
        IN  /\ h' = [invoked |-> TRUE, wrote |-> wrote, callsNext |-> callsNext,
                     mode |-> "reject", value |-> f]
            /\ promise' = [state |-> "rejected", value |-> f]
            /\ res' = m.res
            /\ log' = m.log
    /\ pc' = "settled"
    /\ UNCHANGED <<made, revision, isDev, vpart, schema, req>>

\* the reaction .then((value) => handleResult(value, res)) runs
ThenReaction ==
    /\ pc = "settled"
    /\ LET t == wrapperThen(M, promise)
       IN  /\ promise' = t.promise
           /\ res' = t.m.res
           /\ log' = t.m.log
    /\ pc' = "thenSettled"
    /\ UNCHANGED <<made, revision, isDev, vpart, schema, req, h>>

\* the reaction .catch(next) runs
CatchReaction ==
    /\ pc = "thenSettled"
    /\ LET m == wrapperPromiseCatch(M, promise)
       IN  /\ res' = m.res
           /\ log' = m.log
    /\ pc' = "done"
    /\ UNCHANGED <<made, revision, isDev, vpart, schema, req, h, promise>>

\* no route matches the request: express runs notFoundHandler()
Unmatched ==
    /\ pc = "unmatched"
    /\ LET m == NotFoundLayer(M)
       IN  /\ res' = m.res
           /\ log' = m.log
    /\ pc' = "done"
    /\ UNCHANGED <<made, revision, isDev, vpart, schema, req, h, promise>>

Next ==
    \/ Unmatched
    \/ ValidateFn
    \/ WrapperReturn
    \/ WrapperThrow
    \/ WrapperPromise
    \/ HandlerResolves
    \/ HandlerRejects
    \/ ThenReaction
    \/ CatchReaction

Spec == Init /\ [][Next]_vars

----------------------------------------------------------------------------
(* errors.ts used on its own: getErrorName, the constructors and toJson    *)
(* called with arguments drawn from the sets below                         *)

\* status codes: registered ones, two codes of [400, 511] the library does
\* not register, and codes on both sides of the range
UnregisteredCodes == {430, 499}

StatusCodes ==
    DOMAIN HttpStatusName \cup UnregisteredCodes
        \cup {0, 200, 302, 399, 512, 599, 600}

Subtypes ==
    {"BadRequestError", "UnauthorizedError", "ForbiddenError",
     "NotFoundError", "ConflictError", "InternalServerError"}

\* BodyMessage: string | string[]
Messages ==
    {Str("Invalid input"), Str(""),
     List(<<"Name is required", "Age is required">>), List(<<>>)}

\* detail?: object; null and a stack string are what errorHandler passes
Details ==
    {Undefined, Null, Obj([field |-> "name"]),
     List(<<[code |-> "invalid_type", received |-> "raw2"]>>),
     Str("stack:1")}

InitErrors ==
    /\ made = NothingMade
    /\ revision = "part_001"
    /\ isDev = TRUE
    /\ vpart = "none"
    /\ schema = <<>>
    /\ req = [body |-> "raw1", query |-> "raw1", params |-> "raw1",
              method |-> "GET", originalUrl |-> "/x"]
    /\ res = [statusCode |-> 200, headersSent |-> FALSE,
              body |-> [how |-> "none"], writes |-> 0]
    /\ log = <<>>
    /\ pc = "idle"
    /\ h = NoHandler
    /\ promise = NoPromise

\* getErrorName(status)
CallGetErrorName ==
    /\ \E status \in StatusCodes :
          made' = [op |-> "getErrorName", status |-> status,
                   raised |-> getErrorNameThrows(status),
                   name |-> IF getErrorNameThrows(status)
                            THEN ""
                            ELSE getErrorName(status)]
    /\ UNCHANGED <<revision, isDev, vpart, schema, req, res, log, pc, h,
                   promise>>

\* new HttpError(msg, status, detail) and new HttpError(msg): status
\* undefined takes the default
NewHttpError ==
    /\ \E msg \in Messages, detail \in Details,
          statusArg \in {Undefined} \cup {Num(c) : c \in StatusCodes} :
          LET r == Construct("HttpError", msg, statusArg, detail)
          IN  made' = [op |-> "new", cls |-> "HttpError", msg |-> msg,
                       statusArg |-> statusArg, detail |-> detail,
                       raised |-> r.raised, err |-> r.err, json |-> Null]
    /\ UNCHANGED <<revision, isDev, vpart, schema, req, res, log, pc, h,
                   promise>>

\* new BadRequestError(message, detail), ..., new
\* InternalServerError(message, detail)
NewSubtype ==
    /\ \E cls \in Subtypes, msg \in Messages, detail \in Details :
          LET r == Construct(cls, msg, Undefined, detail)
          IN  made' = [op |-> "new", cls |-> cls, msg |-> msg,
                       statusArg |-> Undefined, detail |-> detail,
                       raised |-> r.raised, err |-> r.err, json |-> Null]
    /\ UNCHANGED <<revision, isDev, vpart, schema, req, res, log, pc, h,
                   promise>>

\* err.toJson() on the error just constructed
CallToJson ==
    /\ made.op = "new"
    /\ ~made.raised
    /\ made.json = Null
    /\ made' = [made EXCEPT !.json = HttpErrorToJson(made.err)]
    /\ UNCHANGED <<revision, isDev, vpart, schema, req, res, log, pc, h,
                   promise>>

NextErrors ==
    \/ CallGetErrorName
    \/ NewHttpError
    \/ NewSubtype
    \/ CallToJson

SpecErrors == InitErrors /\ [][NextErrors]_vars

----------------------------------------------------------------------------
(* api-res.ts used on its own: the constructor, ok, created, paginated and *)
(* toJson called with arguments drawn from the sets below                  *)

\* result: any
Payloads ==
    {Undefined, Null, User, Obj([a |-> 1]), Str("Hello World!"), Num(0),
     List(<<"u1", "u2">>)}

\* message?: string
MessageArgs == {Undefined, Str("msg"), Str("User created successfully"), Str("")}

\* status: number
StatusArgs == {Undefined, Num(200), Num(201), Num(404)}

\* meta: object
Metas ==
    {Obj([page |-> 1]), Obj([page |-> 2, total |-> 10]),
     Obj([page |-> 1, data |-> Str("stale")]), EmptyObj}

InitApiRes == InitErrors

\* new ApiRes(result, status, message), every argument optional
NewApiRes ==
    /\ \E rev \in ApiResRevisions, x \in Payloads, st \in StatusArgs,
          msg \in MessageArgs :
          made' = [op |-> "ApiRes", rev |-> rev, x |-> x, meta |-> Undefined,
                   statusArg |-> st, messageArg |-> msg,
                   env |-> ApiResNew(rev, x, st, msg), json |-> Null]
    /\ UNCHANGED <<revision, isDev, vpart, schema, req, res, log, pc, h,
                   promise>>

\* ApiRes.ok(result, message?)
CallOk ==
    /\ \E rev \in ApiResRevisions, x \in Payloads, msg \in MessageArgs :
          made' = [op |-> "ok", rev |-> rev, x |-> x, meta |-> Undefined,
                   statusArg |-> Undefined, messageArg |-> msg,
                   env |-> ApiResOk(rev, x, msg), json |-> Null]
    /\ UNCHANGED <<revision, isDev, vpart, schema, req, res, log, pc, h,
                   promise>>

\* ApiRes.created(result, message?)
CallCreated ==
    /\ \E rev \in ApiResRevisions, x \in Payloads, msg \in MessageArgs :
          made' = [op |-> "created", rev |-> rev, x |-> x, meta |-> Undefined,
                   statusArg |-> Undefined, messageArg |-> msg,
                   env |-> ApiResCreated(rev, x, msg), json |-> Null]
    /\ UNCHANGED <<revision, isDev, vpart, schema, req, res, log, pc, h,
                   promise>>

\* ApiRes.paginated(data, meta, message?)
CallPaginated ==
    /\ \E rev \in ApiResRevisions, x \in Payloads, meta \in Metas,
          msg \in MessageArgs :
          made' = [op |-> "paginated", rev |-> rev, x |-> x, meta |-> meta,
                   statusArg |-> Undefined, messageArg |-> msg,
                   env |-> ApiResPaginated(rev, x, meta, msg), json |-> Null]
    /\ UNCHANGED <<revision, isDev, vpart, schema, req, res, log, pc, h,
                   promise>>

\* toJson() on the envelope just created
CallApiResToJson ==
    /\ made.op \in {"ApiRes", "ok", "created", "paginated"}
    /\ made.json = Null
    /\ made' = [made EXCEPT !.json = ApiResToJson(made.env)]
    /\ UNCHANGED <<revision, isDev, vpart, schema, req, res, log, pc, h,
                   promise>>

NextApiRes ==
    \/ NewApiRes
    \/ CallOk
    \/ CallCreated
    \/ CallPaginated
    \/ CallApiResToJson

SpecApiRes == InitApiRes /\ [][NextApiRes]_vars

----------------------------------------------------------------------------
(* factory.ts: controllers.  createController / getControllerMethod are    *)
(* the latest revision (part_001), controllerFactory the first (part_000). *)

\* controller classes: what `typeof instance[key]` is for each member
Classes ==
    [AuthController |-> [login |-> "function", secret |-> "string"],
     BlogController |-> [getPosts |-> "function", getPost |-> "function"],
     UserController |-> [list |-> "function", count |-> "number"]]

\* keys asked of a controller: its members and one it does not have
Keys == {"login", "secret", "getPosts", "getPost", "list", "count", "remove"}

TypeOfMember(cls, key) ==
    IF key \in DOMAIN Classes[cls] THEN Classes[cls][key] ELSE "undefined"

\* resolveInstance(cls): require('tsyringe') and container.resolve(cls), or
\* process.exit(1) when the require throws (exitCode means something only
\* when exited)
resolveInstance(cls, installed) ==
    IF installed
    THEN [exited |-> FALSE, exitCode |-> 0, required |-> TRUE,
          instance |-> [cls |-> cls, from |-> "container"]]
    ELSE [exited |-> TRUE, exitCode |-> 1, required |-> TRUE,
          instance |-> Null]

\* a createController that resolves from the container whatever the flag is
createController_AlwaysResolves(cls, useTsyringe, installed) ==
    resolveInstance(cls, installed)

\* createController(cls, useTsyringe = true): the instance it holds
createController(cls, useTsyringe, installed) ==
    LET flag == IF useTsyringe.kind = "undefined" THEN Bool(TRUE) ELSE useTsyringe
    IN  IF Truthy(flag)
        THEN resolveInstance(cls, installed)
        ELSE [exited |-> FALSE, exitCode |-> 0, required |-> FALSE,
              instance |-> [cls |-> cls, from |-> "new"]]

\* controllerFactory(cls): the instance it holds
controllerFactory(cls, installed) == resolveInstance(cls, installed)

\* the text of the Error getMethod throws
NotAFunctionMessage(fn, key, cls) ==
    IF fn = "controllerFactory"
    THEN "Handler " \o key \o " is not a function"
    ELSE "Handler " \o key \o " is not a function of " \o cls

\* a getControllerMethod that leaves the typeof test to the wrapped handler
getControllerMethod_DefersCheck(fn, instance, key) ==
    [raised |-> FALSE, err |-> Undefined,
     handler |-> [wrapped |-> TRUE, method |-> key, boundThis |-> instance]]

\* getControllerMethod(instance, key), and getMethod of controllerFactory
getControllerMethod(fn, instance, key) ==
    IF TypeOfMember(instance.cls, key) # "function"
    THEN [raised |-> TRUE,
          err |-> PlainError(NotAFunctionMessage(fn, key, instance.cls),
                             "stack:getMethod"),
          handler |-> Null]
    ELSE [raised |-> FALSE, err |-> Undefined,
          handler |-> [wrapped |-> TRUE, method |-> key,
                       boundThis |-> instance]]

InitController == InitErrors

\* const c = createController(cls, useTsyringe?) at start-up
CallCreateController ==
    /\ made = NothingMade
    /\ \E cls \in DOMAIN Classes, installed \in BOOLEAN,
          flag \in {Undefined, Bool(TRUE), Bool(FALSE)} :
          made' = [op |-> "create", fn |-> "createController", cls |-> cls,
                   flag |-> flag, installed |-> installed,
                   got |-> createController(cls, flag, installed)]
    /\ UNCHANGED <<revision, isDev, vpart, schema, req, res, log, pc, h,
                   promise>>

\* const c = controllerFactory(cls) at start-up
CallControllerFactory ==
    /\ made = NothingMade
    /\ \E cls \in DOMAIN Classes, installed \in BOOLEAN :
          made' = [op |-> "create", fn |-> "controllerFactory", cls |-> cls,
                   flag |-> Undefined, installed |-> installed,
                   got |-> controllerFactory(cls, installed)]
    /\ UNCHANGED <<revision, isDev, vpart, schema, req, res, log, pc, h,
                   promise>>

\* c.getMethod(key) while the routes are set up; the process that exited
\* runs no further
CallGetMethod ==
    /\ made.op = "create"
    /\ ~made.got.exited
    /\ \E key \in Keys :
          LET r == getControllerMethod(made.fn, made.got.instance, key)
          IN  made' = [op |-> "getMethod", ctrl |-> made, key |-> key,
                       raised |-> r.raised, err |-> r.err,
                       handler |-> r.handler]
    /\ UNCHANGED <<revision, isDev, vpart, schema, req, res, log, pc, h,
                   promise>>

\* a request reaches the route: express calls the handler getMethod gave,
\* which calls the bound method
RouteRequest ==
    /\ made.op = "getMethod"
    /\ ~made.raised
    /\ \E method \in {"GET", "POST"} :
          made' = [op |-> "request", route |-> made, method |-> method,
                   ran |-> made.handler.method,
                   this |-> made.handler.boundThis]
    /\ UNCHANGED <<revision, isDev, vpart, schema, req, res, log, pc, h,
                   promise>>

NextController ==
    \/ CallCreateController
    \/ CallControllerFactory
    \/ CallGetMethod
    \/ RouteRequest

SpecController == InitController /\ [][NextController]_vars

----------------------------------------------------------------------------
(* what the log shows *)

EvSeq(ev, by) == SelectSeq(log, LAMBDA e : e.ev = ev /\ e.by = by)

Args(q) == [i \in 1..Len(q) |-> q[i].arg]

\* the arguments of the adapter's calls of next, in order
AdapterNext == Args(EvSeq("next", "adapter"))

\* the calls the adapter made on res (a "raise" is a json or send that threw)
AdapterResCalls ==
    SelectSeq(log, LAMBDA e : e.by = "adapter"
                              /\ e.ev \in {"status", "json", "send", "raise"})

\* how often the result dispatch ran
DispatchRuns == Len(EvSeq("handleResult", "adapter"))

\* the faults the terminal error handler was given, in order
ErrorHandlerFaults == Args(EvSeq("errorHandler", "express"))

\* nothing had sent the response when the result dispatch started
UnsentAtDispatch ==
    \A i \in 1..Len(log) :
        log[i].ev \in {"json", "send"} =>
            \E j \in 1..(i - 1) : log[j].ev = "handleResult"

Done == pc = "done"

Threw == h.mode = "throw"
Rejected == h.mode = "reject"
Gave == h.mode \in {"return", "resolve"}

----------------------------------------------------------------------------
(* C1. A handler that throws f synchronously: the adapter calls next with  *)
(* f, once, and makes no call on the response (no status, json or send)    *)
(* and never runs the result dispatch.                                     *)
C1_SyncThrowForwarded ==
    (Done /\ Threw) =>
        /\ AdapterNext = <<h.value>>
        /\ AdapterResCalls = <<>>
        /\ DispatchRuns = 0

C1_Witness ==
    /\ Done /\ Threw
    /\ h.value = PlainError("db down", "stack:1")
    /\ AdapterNext = <<PlainError("db down", "stack:1")>>

(* C2. A handler whose promise rejects with r: the adapter calls next with *)
(* r exactly once, only after the rejection (by the .catch reaction), and  *)
(* never runs the result dispatch nor writes a response.                   *)
C2_RejectionForwarded ==
    /\ (pc \in {"pending", "settled", "thenSettled"}) => AdapterNext = <<>>
    /\ Rejected =>
        /\ DispatchRuns = 0
        /\ AdapterResCalls = <<>>
        /\ Done => AdapterNext = <<h.value>>

C2_Witness ==
    /\ Done /\ Rejected
    /\ h.value = Str("boom")
    /\ AdapterNext = <<Str("boom")>>

(* C3 as claimed: once the handler's promise has settled, exactly one of   *)
(* {result dispatch, failure forward} has run, once, when the request is   *)
(* through; also when the dispatch itself raises.                          *)
C3_ExactlyOneOfDispatchOrForward ==
    (Done /\ h.mode \in {"resolve", "reject"}) =>
        DispatchRuns + Len(AdapterNext) = 1

\* the result dispatch threw while writing
DispatchRaised == EvSeq("raise", "adapter") # <<>>

(* C3 amended: after a rejection only the failure forward runs, once; after *)
(* a fulfilment the dispatch runs once, and the failure forward runs as    *)
(* well, once and with the fault the dispatch raised, exactly when the     *)
(* dispatch raised.                                                        *)
C3_DispatchThenForwardOnRaise ==
    (Done /\ h.mode \in {"resolve", "reject"}) =>
        IF Rejected
        THEN DispatchRuns = 0 /\ AdapterNext = <<h.value>>
        ELSE /\ DispatchRuns = 1
             /\ AdapterNext = (IF DispatchRaised THEN <<HeadersSentError>> ELSE <<>>)

C3_Witness ==
    /\ Done /\ h.mode = "resolve"
    /\ DispatchRuns = 1
    /\ DispatchRaised
    /\ AdapterNext = <<HeadersSentError>>

(* C4. Every fault the handler throws or rejects with, whatever the value, *)
(* is given to errorHandler exactly once by the time the request is        *)
(* through.                                                                *)
C4_FaultReachesErrorHandlerOnce ==
    (Done /\ (Threw \/ Rejected)) =>
        Len(SelectSeq(ErrorHandlerFaults, LAMBDA f : f = h.value)) = 1

\* the adapter's calls of res.json and res.send, in order, thrown or not
AdapterWriteCalls ==
    LET q == SelectSeq(log, LAMBDA e : e.by = "adapter"
                                       /\ e.ev \in {"json", "send", "raise"})
    IN  [i \in 1..Len(q) |->
            IF q[i].ev = "raise"
            THEN q[i].arg
            ELSE [how |-> q[i].ev, payload |-> q[i].arg]]

\* the status codes the adapter set, in order
AdapterStatus == Args(EvSeq("status", "adapter"))

(* C5. The handler gives an ApiRes v (returned or resolved): the adapter   *)
(* sets the status v.status and calls res.json with v.toJson() =           *)
(* {status, message, result}, once each; on a response nothing has sent    *)
(* before, that is the one body written, under status v.status, and the    *)
(* adapter does not call next.                                             *)
C5_EnvelopeWritten ==
    (Done /\ Gave /\ h.value.kind = "ApiRes") =>
        /\ AdapterStatus = <<Num(h.value.status)>>
        /\ AdapterWriteCalls =
              <<[how |-> "json",
                 payload |-> [status |-> h.value.status,
                              message |-> h.value.message,
                              result |-> h.value.result]]>>
        /\ UnsentAtDispatch =>
              /\ res.statusCode = h.value.status
              /\ res.body = [how |-> "json",
                             payload |-> [status |-> h.value.status,
                                          message |-> h.value.message,
                                          result |-> h.value.result]]
              /\ res.writes = 1
              /\ AdapterNext = <<>>

C5_Witness ==
    /\ Done /\ h.mode = "resolve"
    /\ h.value = ApiRes(User, 201, "User created successfully")
    /\ res.statusCode = 201
    /\ res.body.how = "json"
    /\ res.writes = 1

\* v is present (neither undefined nor null), no ApiRes and not res itself
PresentPlain(v) == v.kind \notin {"undefined", "null", "ApiRes", "res"}

(* C6. The handler gives a present value v that is no ApiRes and not res,  *)
(* false, 0 and the empty string included: the adapter calls res.send(v).  *)
C6_EveryPresentValueSent ==
    (Done /\ Gave /\ PresentPlain(h.value)) =>
        AdapterWriteCalls = <<[how |-> "send", payload |-> h.value]>>

(* C7. The handler gives undefined, null or res itself: the adapter makes  *)
(* no call on the response and no call of next, so the response holds what *)
(* the handler itself wrote and nothing more.                              *)
C7_AbsentOrResIsNoOp ==
    (Done /\ Gave /\ h.value \in {Undefined, Null, ResObj}) =>
        /\ AdapterResCalls = <<>>
        /\ AdapterNext = <<>>
        /\ (h.wrote /\ ~h.callsNext) =>
              /\ res.writes = 1
              /\ res.body = [how |-> "json", payload |-> HandlerBody]
        /\ (~h.wrote /\ ~h.callsNext) => res.writes = 0 /\ ~res.headersSent

C7_Witness ==
    /\ Done /\ h.mode = "return"
    /\ h.value = ResObj
    /\ h.wrote /\ ~h.callsNext
    /\ res.writes = 1

(* C8. The handler gives a plain object: the adapter calls res.send with   *)
(* exactly that object and sets no status; on a response nothing has sent  *)
(* before, the object is the one body written and the response keeps the   *)
(* default status 200.                                                     *)
C8_PlainObjectSentWith200 ==
    (Done /\ Gave /\ h.value.kind = "object") =>
        /\ AdapterWriteCalls = <<[how |-> "send", payload |-> h.value]>>
        /\ AdapterStatus = <<>>
        /\ UnsentAtDispatch =>
              /\ res.body = [how |-> "send", payload |-> h.value]
              /\ res.statusCode = 200
              /\ res.writes = 1
              /\ AdapterNext = <<>>

C8_Witness ==
    /\ Done /\ h.mode = "return"
    /\ h.value = Obj([message |-> "Hello World!"])
    /\ res.body = [how |-> "send", payload |-> Obj([message |-> "Hello World!"])]
    /\ res.statusCode = 200

\* the validation middleware has answered: the chain ended before the handler
ValidationFailed == Done /\ vpart \in Parts /\ ~h.invoked

\* the body validateFn is claimed to write, given the message
BadRequestBody(message) ==
    [status |-> 400, error |-> "BadRequestError", message |-> Str(message),
     detail |-> List(<<[code |-> "invalid_type", received |-> req[vpart]]>>)]

\* next was never called
NoNext == \A i \in 1..Len(log) : log[i].ev # "next"

(* C9 as claimed: when the parse of req[part] fails the middleware writes  *)
(* one response, status 400, body {status, error: "BadRequestError",       *)
(* message: "req.<part> fields validation error", detail: the schema's     *)
(* error list}, and never calls next.                                      *)
C9_BadRequestExactMessage ==
    ValidationFailed =>
        /\ res.statusCode = 400
        /\ res.writes = 1
        /\ res.body = [how |-> "json",
                       payload |-> BadRequestBody(
                           "req." \o vpart \o " fields validation error")]
        /\ NoNext

(* C9 amended: as claimed, with the message in the fixed wording of the    *)
(* deployed revision: "req.<part> fields validation error" (guard.ts) or   *)
(* "validation error occur from req.<part> fields" (the later revision).   *)
C9_BadRequestFixedWording ==
    ValidationFailed =>
        /\ res.statusCode = 400
        /\ res.writes = 1
        /\ res.body = [how |-> "json",
                       payload |-> BadRequestBody(
                           IF revision = "guard.ts"
                           THEN "req." \o vpart \o " fields validation error"
                           ELSE "validation error occur from req." \o vpart
                                    \o " fields")]
        /\ NoNext
        /\ log = <<Ev("status", "validate", Num(400)),
                   Ev("json", "validate", res.body.payload)>>

C9_Witness ==
    /\ ValidationFailed
    /\ vpart = "query"
    /\ revision = "part_001"
    /\ res.statusCode = 400
    /\ res.body.payload.message =
          Str("validation error occur from req.query fields")

(* C10. When the parse of req[part] succeeds with data, the middleware     *)
(* sets req[part] to data, calls next once and without an argument, and    *)
(* writes nothing to the response; it calls next at no other time.         *)
C10_ValidDataReplacesPart ==
    [][/\ (pc = "validate" /\ req[vpart] \in DOMAIN schema) =>
            /\ pc' = "handler"
            /\ req'[vpart] = schema[req[vpart]]
            /\ log' = <<Ev("next", "validate", Undefined)>>
            /\ res' = res
       /\ (pc # "validate" \/ req[vpart] \notin DOMAIN schema) =>
            EvSeq("next", "validate")' = EvSeq("next", "validate")]_vars

C10_Witness ==
    /\ pc = "handler"
    /\ vpart = "params"
    /\ req.params = "parsed1"
    /\ log = <<Ev("next", "validate", Undefined)>>
    /\ res.writes = 0 /\ ~res.headersSent

\* the data the schema can produce
ParsedData == {schema[x] : x \in DOMAIN schema}

\* the handler has started
HandlerStarted == h.invoked \/ EvSeq("handler", "express") # <<>>

(* C11. On a route guarded by validate.<part>(schema) the handler starts    *)
(* only after validateFn has parsed req[part] successfully, replaced it by  *)
(* the parsed data and called next(); when the parse fails the request ends *)
(* in validateFn and the handler is never started.                          *)
C11_HandlerOnlyAfterValidation ==
    vpart \in Parts =>
        /\ pc = "validate" => ~HandlerStarted
        /\ HandlerStarted =>
              /\ log[1] = Ev("next", "validate", Undefined)
              /\ req[vpart] \in ParsedData
              /\ EvSeq("json", "validate") = <<>>
        /\ (pc # "validate" /\ req[vpart] \notin ParsedData) =>
              /\ pc = "done"
              /\ ~HandlerStarted
              /\ EvSeq("next", "validate") = <<>>

C11_Witness ==
    /\ vpart = "body"
    /\ schema = [x \in {"raw1"} |-> "parsed1"]
    /\ req.body = "parsed1"
    /\ Len(log) >= 2
    /\ log[1] = Ev("next", "validate", Undefined)
    /\ log[2] = Ev("handler", "express", Undefined)
    /\ h.invoked

\* the calls errorHandler made: res.status, and res.json thrown or not
ErrorHandlerStatus == Args(EvSeq("status", "errorHandler"))

ErrorHandlerWriteCalls ==
    LET q == SelectSeq(log, LAMBDA e : e.by = "errorHandler"
                                       /\ e.ev \in {"json", "send", "raise"})
    IN  [i \in 1..Len(q) |->
            IF q[i].ev = "raise"
            THEN q[i].arg
            ELSE [how |-> q[i].ev, payload |-> q[i].arg]]

\* nothing had sent the response when errorHandler was first given a fault
UnsentAtErrorHandler ==
    \A i \in 1..Len(log) :
        log[i].ev \in {"json", "send"} =>
            \E j \in 1..(i - 1) : log[j].ev = "errorHandler"

\* the body claimed for an HttpError f
HttpErrorBody(f) ==
    IF f.detail = Undefined
    THEN [status |-> f.status, error |-> f.name, message |-> f.msg]
    ELSE [status |-> f.status, error |-> f.name, message |-> f.msg,
          detail |-> f.detail]

(* C12. Each time errorHandler is given an HttpError f (base type or        *)
(* subtype), with isDev true or false, it sets the status f.status and      *)
(* calls res.json once with {status, error: name, message, detail?} of f;   *)
(* on a response nothing has sent before, that is the one body written,     *)
(* under status f.status; errorHandler never calls next.                    *)
C12_HttpErrorAnsweredAsIs ==
    /\ EvSeq("next", "errorHandler") = <<>>
    /\ \A i \in 1..Len(ErrorHandlerFaults) :
          LET f == ErrorHandlerFaults[i]
          IN  f.kind = "HttpError" =>
                /\ i \in DOMAIN ErrorHandlerStatus
                /\ i \in DOMAIN ErrorHandlerWriteCalls
                /\ Len(ErrorHandlerStatus) = Len(ErrorHandlerFaults)
                /\ Len(ErrorHandlerWriteCalls) = Len(ErrorHandlerFaults)
                /\ ErrorHandlerStatus[i] = Num(f.status)
                /\ ErrorHandlerWriteCalls[i] =
                      [how |-> "json", payload |-> HttpErrorBody(f)]
                /\ UnsentAtErrorHandler =>
                      /\ res.statusCode = f.status
                      /\ res.body = [how |-> "json",
                                     payload |-> HttpErrorBody(f)]
                      /\ res.writes = 1

C12_Witness ==
    /\ Done /\ Threw /\ ~isDev
    /\ ErrorHandlerFaults =
          <<ForbiddenError(Str("User have not permission"), Undefined)>>
    /\ res.statusCode = 403
    /\ res.writes = 1
    /\ res.body = [how |-> "json",
                   payload |-> [status |-> 403, error |-> "ForbiddenError",
                                message |-> Str("User have not permission")]]

\* the body claimed for a fault f that is no HttpError
InternalErrorBody(f) ==
    IF f.kind # "Error"
    THEN [status |-> 500, error |-> "InternalServerError",
          message |-> Undefined]
    ELSE IF isDev
    THEN [status |-> 500, error |-> "InternalServerError",
          message |-> Str(f.message), detail |-> Str(f.stack)]
    ELSE [status |-> 500, error |-> "InternalServerError",
          message |-> Str(f.message)]

(* C13. Each time errorHandler is given a fault f that is no HttpError, it  *)
(* sets the status 500 and calls res.json once with {status: 500, error:    *)
(* "InternalServerError", message: f.message}, plus detail: f.stack when    *)
(* isDev is true and no detail when isDev is false; on a response nothing   *)
(* has sent before, that is the one body written, under status 500;         *)
(* errorHandler never calls next.                                           *)
C13_UnknownFaultAnswered500 ==
    /\ EvSeq("next", "errorHandler") = <<>>
    /\ \A i \in 1..Len(ErrorHandlerFaults) :
          LET f == ErrorHandlerFaults[i]
          IN  f.kind # "HttpError" =>
                /\ i \in DOMAIN ErrorHandlerStatus
                /\ i \in DOMAIN ErrorHandlerWriteCalls
                /\ Len(ErrorHandlerStatus) = Len(ErrorHandlerFaults)
                /\ Len(ErrorHandlerWriteCalls) = Len(ErrorHandlerFaults)
                /\ ErrorHandlerStatus[i] = Num(500)
                /\ ErrorHandlerWriteCalls[i] =
                      [how |-> "json", payload |-> InternalErrorBody(f)]
                /\ UnsentAtErrorHandler =>
                      /\ res.statusCode = 500
                      /\ res.body = [how |-> "json",
                                     payload |-> InternalErrorBody(f)]
                      /\ res.writes = 1

C13_Witness ==
    /\ Done /\ Rejected /\ ~isDev
    /\ ErrorHandlerFaults = <<PlainError("db down", "stack:2")>>
    /\ res.statusCode = 500
    /\ res.writes = 1
    /\ res.body = [how |-> "json",
                   payload |-> [status |-> 500,
                                error |-> "InternalServerError",
                                message |-> Str("db down")]]

\* the runs of notFoundHandler and the calls it made
NotFoundRuns == Len(EvSeq("notFoundHandler", "express"))

NotFoundStatus == Args(EvSeq("status", "notFoundHandler"))

NotFoundWriteCalls ==
    LET q == SelectSeq(log, LAMBDA e : e.by = "notFoundHandler"
                                       /\ e.ev \in {"json", "send", "raise"})
    IN  [i \in 1..Len(q) |->
            IF q[i].ev = "raise"
            THEN q[i].arg
            ELSE [how |-> q[i].ev, payload |-> q[i].arg]]

\* nothing had sent the response when notFoundHandler first ran
UnsentAtNotFound ==
    \A i \in 1..Len(log) :
        log[i].ev \in {"json", "send"} =>
            \E j \in 1..(i - 1) : log[j].ev = "notFoundHandler"

\* the body claimed for method m and path p
NotFoundBody(m, p) ==
    [status |-> 404, error |-> "NotFoundError",
     message |-> Str("Cannot " \o m \o " " \o p),
     detail |-> Obj([url |-> p, method |-> m])]

(* C14. Each time a request with method m and path p reaches                *)
(* notFoundHandler, it sets the status 404 and calls res.json once with     *)
(* {status: 404, error: "NotFoundError", message: "Cannot m p", detail:     *)
(* {url: p, method: m}}; on a response nothing has sent before, that is the *)
(* one body written, sent right after the status 404 was set.  GET /x       *)
(* gives "Cannot GET /x".                                                   *)
C14_NotFoundNamesMethodAndPath ==
    /\ Len(NotFoundStatus) = NotFoundRuns
    /\ Len(NotFoundWriteCalls) = NotFoundRuns
    /\ \A i \in 1..NotFoundRuns :
          /\ NotFoundStatus[i] = Num(404)
          /\ NotFoundWriteCalls[i] =
                [how |-> "json",
                 payload |-> NotFoundBody(req.method, req.originalUrl)]
    /\ (NotFoundRuns > 0 /\ UnsentAtNotFound) =>
          /\ \E i \in 1..(Len(log) - 1) :
                /\ log[i] = Ev("status", "notFoundHandler", Num(404))
                /\ log[i + 1].ev = "json" /\ log[i + 1].by = "notFoundHandler"
          /\ pc = "done" /\ h = NoHandler => res.statusCode = 404
          /\ res.writes = 1
          /\ res.body = [how |-> "json",
                         payload |-> NotFoundBody(req.method, req.originalUrl)]
          /\ (req.method = "GET" /\ req.originalUrl = "/x") =>
                res.body.payload.message = Str("Cannot GET /x")
          /\ (req.method = "POST" /\ req.originalUrl = "/x") =>
                res.body.payload.message = Str("Cannot POST /x")

C14_Witness ==
    /\ Done
    /\ log[1] = Ev("notFoundHandler", "express", Undefined)
    /\ req.method = "GET" /\ req.originalUrl = "/x"
    /\ res.statusCode = 404
    /\ res.writes = 1
    /\ res.body = [how |-> "json",
                   payload |-> [status |-> 404, error |-> "NotFoundError",
                                message |-> Str("Cannot GET /x"),
                                detail |-> Obj([url |-> "/x",
                                                method |-> "GET"])]]

----------------------------------------------------------------------------
(* errors.ts on its own *)

\* the status a construction ran with: the argument, or the default
MadeStatus ==
    IF made.statusArg.kind = "undefined" THEN 500 ELSE made.statusArg.val

Constructed == made.op = "new" /\ ~made.raised

(* C15 as claimed: constructing an HttpError (base type or subtype) never  *)
(* throws, whatever the message, the status and the detail, every status   *)
(* of [400, 511] included, registered or not.                              *)
C15_ConstructionNeverThrows ==
    made.op = "new" => ~made.raised

\* the words of a registered name (split at the underscores), each with its
\* first letter in upper case and the rest in lower case, concatenated
RECURSIVE TitleWords(_, _)
TitleWords(q, wordStart) ==
    IF q = <<>>
    THEN <<>>
    ELSE IF Head(q) = "_"
    THEN TitleWords(Tail(q), TRUE)
    ELSE <<IF wordStart
           THEN toUpperChar(Head(q))
           ELSE toLowerChar(Head(q))>> \o TitleWords(Tail(q), FALSE)

\* the name claimed for each registered code
ClaimedNames ==
    [c \in DOMAIN HttpStatusName |->
        LET t == TitleWords(HttpStatusName[c], TRUE)
        IN  IF EndsWithError(t) THEN t ELSE t \o <<"E", "r", "r", "o", "r">>]

\* s is a name that ends in the suffix "Error"
EndsInErrorSuffix(s) ==
    \/ s = "Http" \o "Error"
    \/ \E c \in DOMAIN ClaimedNames :
          s = Join(SubSeq(ClaimedNames[c], 1, Len(ClaimedNames[c]) - 5))
                  \o "Error"

(* C16. For a code of [400, 511] with a registered phrase getErrorName     *)
(* returns the words of the phrase title-cased and concatenated, with      *)
(* "Error" appended unless the result already ends in it: no underscore,   *)
(* no space, 404 -> "NotFoundError", 500 -> "InternalServerError"; and the *)
(* name of every constructed HttpError ends in "Error".                    *)
C16_NameIsTitleCasedPhrase ==
    /\ (/\ made.op = "getErrorName"
        /\ made.status >= 400 /\ made.status <= 511
        /\ made.status \in DOMAIN HttpStatusName) =>
          LET e == ClaimedNames[made.status]
          IN  /\ ~made.raised
              /\ made.name = Join(e)
              /\ EndsWithError(e)
              /\ ~EndsWithError(SubSeq(e, 1, Len(e) - 5))
              /\ \A i \in 1..Len(e) : e[i] \notin {"_", " "}
              /\ made.status = 404 => made.name = "NotFoundError"
              /\ made.status = 500 => made.name = "InternalServerError"
              /\ made.status = 418 => made.name = "ImATeapotError"
              /\ made.status = 505 =>
                    made.name = "HttpVersionNotSupportedError"
    /\ Constructed => EndsInErrorSuffix(made.err.name)

C16_Witness ==
    /\ made.op = "getErrorName"
    /\ made.status = 500
    /\ made.name = "InternalServerError"

(* C17. For a status below 400 or above 511 getErrorName returns exactly   *)
(* "HttpError" and does not throw, although the registry has no phrase for *)
(* the code.                                                               *)
C17_OutOfRangeIsHttpError ==
    /\ (made.op = "getErrorName"
        /\ (made.status < 400 \/ made.status > 511)) =>
          /\ ~made.raised
          /\ made.name = "HttpError"
    /\ (made.op = "new" /\ (MadeStatus < 400 \/ MadeStatus > 511)) =>
          /\ ~made.raised
          /\ made.err.name = "HttpError"

C17_Witness ==
    /\ made.op = "getErrorName"
    /\ made.status = 512
    /\ made.status \notin DOMAIN HttpStatusName
    /\ made.name = "HttpError"

(* C18. new HttpError(message, status = 500, detail?) sets name to         *)
(* getErrorName(status) and keeps status; the display message is the       *)
(* message when it is a string and the name when it is a list of strings.  *)
C18_NameAndDisplayMessage ==
    (Constructed /\ made.cls = "HttpError") =>
        /\ made.err.status = MadeStatus
        /\ made.err.name = getErrorName(MadeStatus)
        /\ made.statusArg = Undefined =>
              made.err.status = 500 /\ made.err.name = "InternalServerError"
        /\ made.msg.kind = "string" => made.err.message = made.msg.val
        /\ made.msg.kind = "array" => made.err.message = made.err.name
        /\ made.err.msg = made.msg
        /\ made.err.detail = made.detail

C18_Witness ==
    /\ Constructed /\ made.cls = "HttpError"
    /\ made.statusArg = Num(404)
    /\ made.msg = List(<<"Name is required", "Age is required">>)
    /\ made.err.name = "NotFoundError"
    /\ made.err.message = "NotFoundError"

\* a detail was given to the constructor (null is what a caller passes for
\* "no detail")
DetailProvided == made.detail.kind \notin {"undefined", "null"}

(* C19. toJson() of an HttpError returns {status, error: name, message},   *)
(* message being the constructor's argument as given (a list stays the     *)
(* list), plus detail: the given detail exactly when a detail was given.   *)
C19_ToJsonShape ==
    (Constructed /\ made.json # Null) =>
        /\ made.json.status = made.err.status
        /\ made.cls = "HttpError" => made.json.status = MadeStatus
        /\ made.json.error = made.err.name
        /\ made.json.message = made.msg
        /\ DetailProvided =>
              /\ DOMAIN made.json = {"status", "error", "message", "detail"}
              /\ made.json.detail = made.detail
        /\ ~DetailProvided =>
              DOMAIN made.json = {"status", "error", "message"}

C19_Witness ==
    /\ Constructed
    /\ made.msg = List(<<"Name is required", "Age is required">>)
    /\ made.detail = Obj([field |-> "name"])
    /\ made.json = [status |-> 400, error |-> "BadRequestError",
                    message |-> List(<<"Name is required", "Age is required">>),
                    detail |-> Obj([field |-> "name"])]

\* the status each subtype fixes
SubtypeStatus ==
    [BadRequestError |-> 400, UnauthorizedError |-> 401,
     ForbiddenError |-> 403, NotFoundError |-> 404, ConflictError |-> 409,
     InternalServerError |-> 500]

(* C20. new S(message, detail) for each of the six subtypes gives the same *)
(* error as new HttpError(message, status of S, detail): the fixed status, *)
(* the name derived from it (the subtype's own name), the same display     *)
(* message and the same toJson().                                          *)
C20_SubtypeIsBaseWithFixedStatus ==
    (made.op = "new" /\ made.cls \in Subtypes) =>
        LET base == HttpError(made.msg, SubtypeStatus[made.cls], made.detail)
        IN  /\ ~made.raised
            /\ made.err = base
            /\ made.err.status = SubtypeStatus[made.cls]
            /\ made.err.name = made.cls
            /\ made.err.message =
                  (IF made.msg.kind = "string" THEN made.msg.val ELSE made.cls)
            /\ made.json # Null =>
                  /\ made.json = HttpErrorToJson(base)
                  /\ made.json.status = SubtypeStatus[made.cls]
                  /\ made.json.error = made.cls
                  /\ made.json.message = made.msg

C20_Witness ==
    /\ made.op = "new" /\ made.cls = "ConflictError"
    /\ made.msg = Str("Invalid input")
    /\ made.err.status = 409
    /\ made.err.name = "ConflictError"
    /\ made.json = [status |-> 409, error |-> "ConflictError",
                    message |-> Str("Invalid input")]

----------------------------------------------------------------------------
(* api-res.ts on its own *)

\* the result an envelope holds for the argument x: x, or {} when x is
\* undefined
HeldResult(x) == IF x = Undefined THEN EmptyObj ELSE x

JsonTaken(op) == made.op = op /\ made.json # Null

(* C21 as claimed: ApiRes.ok(x) without a message gives toJson() =          *)
(* {status: 200, message: "success", result: x} for every x; with a message *)
(* m it gives status 200 and message m.                                     *)
C21_OkDefaultsToSuccess ==
    JsonTaken("ok") =>
        /\ made.messageArg = Undefined =>
              made.json = [status |-> 200, message |-> "success",
                           result |-> made.x]
        /\ made.messageArg # Undefined =>
              /\ made.json.status = 200
              /\ made.json.message = made.messageArg.val

(* C21 amended: ApiRes.ok(x) without a message gives {status: 200, message: *)
(* the revision's default, result: x}, the default being "success" in the   *)
(* revision of api-res.ts:40 and "Request processed successfully" in the    *)
(* revision of api-res.ts:79, and result being {} when x is undefined; with *)
(* a message m it gives status 200, message m and the same result.          *)
C21_OkDefaultPerRevision ==
    JsonTaken("ok") =>
        /\ made.messageArg = Undefined =>
              made.json = [status |-> 200,
                           message |-> IF made.rev = "api-res.ts:40"
                                       THEN "success"
                                       ELSE "Request processed successfully",
                           result |-> HeldResult(made.x)]
        /\ made.messageArg # Undefined =>
              made.json = [status |-> 200,
                           message |-> made.messageArg.val,
                           result |-> HeldResult(made.x)]

C21_Witness ==
    /\ JsonTaken("ok")
    /\ made.rev = "api-res.ts:79"
    /\ made.x = User
    /\ made.messageArg = Undefined
    /\ made.json = [status |-> 200,
                    message |-> "Request processed successfully",
                    result |-> Obj([name |-> "user"])]

(* C22 as claimed: ApiRes.created(x) without a message gives toJson() =     *)
(* {status: 201, message: "resource created successfully", result: x} for   *)
(* every x.                                                                 *)
C22_CreatedDefaultMessage ==
    (JsonTaken("created") /\ made.messageArg = Undefined) =>
        made.json = [status |-> 201,
                     message |-> "resource created successfully",
                     result |-> made.x]

(* C22 amended: ApiRes.created(x) without a message gives {status: 201,     *)
(* message: the revision's default, result: x}, the default being           *)
(* "resource created successfully" in the revision of api-res.ts:40 and     *)
(* "Resource created successfully" in the revision of api-res.ts:79, and    *)
(* result being {} when x is undefined.                                     *)
C22_CreatedDefaultPerRevision ==
    (JsonTaken("created") /\ made.messageArg = Undefined) =>
        made.json = [status |-> 201,
                     message |-> IF made.rev = "api-res.ts:40"
                                 THEN "resource created successfully"
                                 ELSE "Resource created successfully",
                     result |-> HeldResult(made.x)]

C22_Witness ==
    /\ JsonTaken("created")
    /\ made.rev = "api-res.ts:40"
    /\ made.x = User
    /\ made.messageArg = Undefined
    /\ made.json = [status |-> 201,
                    message |-> "resource created successfully",
                    result |-> Obj([name |-> "user"])]

(* C23. ApiRes.paginated(data, meta, message) with a message gives an       *)
(* envelope with status 200, that message, and as result the fields of meta *)
(* together with a field data that holds data; paginated({a: 1}, {page: 1}, *)
(* "msg").toJson().result is {page: 1, data: {a: 1}}.                       *)
C23_PaginatedMergesMeta ==
    (JsonTaken("paginated") /\ made.messageArg # Undefined) =>
        /\ made.json.status = 200
        /\ made.json.message = made.messageArg.val
        /\ DOMAIN made.json = {"status", "message", "result"}
        /\ made.json.result.kind = "object"
        /\ DOMAIN made.json.result.fields =
              DOMAIN made.meta.fields \cup {"data"}
        /\ made.json.result.fields.data = made.x
        /\ \A k \in DOMAIN made.meta.fields \ {"data"} :
              made.json.result.fields[k] = made.meta.fields[k]
        /\ (made.x = Obj([a |-> 1]) /\ made.meta = Obj([page |-> 1])) =>
              made.json.result = Obj([page |-> 1, data |-> Obj([a |-> 1])])

C23_Witness ==
    /\ JsonTaken("paginated")
    /\ made.x = Obj([a |-> 1])
    /\ made.meta = Obj([page |-> 1])
    /\ made.messageArg = Str("msg")
    /\ made.json = [status |-> 200, message |-> "msg",
                    result |-> Obj([page |-> 1, data |-> Obj([a |-> 1])])]

(* C24 as claimed: new ApiRes(result, status, message).toJson() is exactly  *)
(* {status, message, result} of the arguments, with status 200 and message  *)
(* "success" when those are omitted, and result the argument itself for     *)
(* every value, undefined included.                                         *)
C24_ResultPassedThrough ==
    JsonTaken("ApiRes") =>
        made.json =
            [status |-> IF made.statusArg = Undefined
                        THEN 200
                        ELSE made.statusArg.val,
             message |-> IF made.messageArg = Undefined
                         THEN "success"
                         ELSE made.messageArg.val,
             result |-> made.x]

(* C24 amended: new ApiRes(result, status, message).toJson() is exactly     *)
(* {status, message, result} of the arguments, an omitted or undefined      *)
(* argument replaced by its default: status 200, message "success"          *)
(* (api-res.ts:40) or "Operation successful" (api-res.ts:79), result {};    *)
(* every other result, null included, is passed through as it is.           *)
C24_DefaultsThenPassThrough ==
    JsonTaken("ApiRes") =>
        made.json =
            [status |-> IF made.statusArg = Undefined
                        THEN 200
                        ELSE made.statusArg.val,
             message |-> IF made.messageArg # Undefined
                         THEN made.messageArg.val
                         ELSE IF made.rev = "api-res.ts:40"
                         THEN "success"
                         ELSE "Operation successful",
             result |-> IF made.x = Undefined THEN Obj(<<>>) ELSE made.x]

C24_Witness ==
    /\ JsonTaken("ApiRes")
    /\ made.x = Undefined
    /\ made.statusArg = Undefined
    /\ made.messageArg = Undefined
    /\ made.rev = "api-res.ts:79"
    /\ made.json = [status |-> 200, message |-> "Operation successful",
                    result |-> Obj(<<>>)]

----------------------------------------------------------------------------
(* factory.ts: controllers *)

\* getMethod(key) was called on a controller and the member is / is not a
\* function
AskedFunction ==
    made.op = "getMethod"
        /\ TypeOfMember(made.ctrl.cls, made.key) = "function"
AskedOther ==
    made.op = "getMethod"
        /\ TypeOfMember(made.ctrl.cls, made.key) # "function"

\* no request was touched: nothing called next, nothing wrote a response
NothingServed == log = <<>> /\ res.writes = 0 /\ ~res.headersSent

(* C25 as claimed: getMethod(key) with instance[key] not a function throws, *)
(* at the getMethod call, a plain Error that names the key and the          *)
(* controller class, without next or a response; otherwise it returns the   *)
(* wrapped method bound to the instance, so that a later request runs the   *)
(* method with this = that instance.                                        *)
C25_ErrorNamesKeyAndClass ==
    /\ AskedOther =>
          /\ made.raised
          /\ made.handler = Null
          /\ made.err = PlainError("Handler " \o made.key
                                       \o " is not a function of "
                                       \o made.ctrl.cls,
                                   "stack:getMethod")
          /\ NothingServed
    /\ AskedFunction =>
          /\ ~made.raised
          /\ made.handler.wrapped
          /\ made.handler.method = made.key
          /\ made.handler.boundThis = made.ctrl.got.instance
    /\ made.op = "request" =>
          /\ made.ran = made.route.key
          /\ made.this = made.route.ctrl.got.instance

(* C25 amended: as claimed, except for what the Error names: the key and    *)
(* the controller class in getControllerMethod ("Handler <key> is not a     *)
(* function of <class>"), the key alone in getMethod of controllerFactory   *)
(* ("Handler <key> is not a function").                                     *)
C25_ErrorNamesKey ==
    /\ AskedOther =>
          /\ made.raised
          /\ made.handler = Null
          /\ made.err.kind = "Error"
          /\ made.err.message =
                (IF made.ctrl.fn = "createController"
                 THEN "Handler " \o made.key \o " is not a function of "
                          \o made.ctrl.cls
                 ELSE "Handler " \o made.key \o " is not a function")
          /\ NothingServed
    /\ AskedFunction =>
          /\ ~made.raised
          /\ made.handler.wrapped
          /\ made.handler.method = made.key
          /\ made.handler.boundThis = made.ctrl.got.instance
    /\ made.op = "request" =>
          /\ TypeOfMember(made.route.ctrl.cls, made.ran) = "function"
          /\ made.ran = made.route.key
          /\ made.this = made.route.ctrl.got.instance

C25_Witness ==
    /\ made.op = "getMethod"
    /\ made.ctrl.fn = "createController"
    /\ made.ctrl.cls = "AuthController"
    /\ made.key = "secret"
    /\ made.raised
    /\ made.err.message = "Handler secret is not a function of AuthController"
    /\ NothingServed

(* C26. createController(cls, useTsyringe = true): with the flag true or    *)
(* omitted the instance comes from the DI container, and the process exits  *)
(* with code 1, before any handler exists, when the DI library cannot be    *)
(* required; with the flag false the instance is new cls() and the DI       *)
(* library is neither required nor needed.                                  *)
C26_FlagChoosesContainerOrNew ==
    /\ (made.op = "create" /\ made.fn = "createController") =>
          /\ (made.flag \in {Undefined, Bool(TRUE)} /\ made.installed) =>
                /\ ~made.got.exited
                /\ made.got.required
                /\ made.got.instance = [cls |-> made.cls, from |-> "container"]
          /\ (made.flag \in {Undefined, Bool(TRUE)} /\ ~made.installed) =>
                /\ made.got.exited
                /\ made.got.exitCode = 1
                /\ made.got.instance = Null
          /\ made.flag = Bool(FALSE) =>
                /\ ~made.got.exited
                /\ ~made.got.required
                /\ made.got.instance = [cls |-> made.cls, from |-> "new"]
    /\ made.op = "getMethod" => ~made.ctrl.got.exited
    /\ made.op = "request" => ~made.route.ctrl.got.exited

C26_Witness ==
    /\ made.op = "create" /\ made.fn = "createController"
    /\ made.flag = Undefined
    /\ ~made.installed
    /\ made.got.exited
    /\ made.got.exitCode = 1

----------------------------------------------------------------------------
(* the request, as a whole *)

\* the bodies that went out, whoever wrote them
BodiesWritten ==
    SelectSeq(log, LAMBDA e : e.ev \in {"json", "send"})

LayerNextCalls ==
    SelectSeq(log, LAMBDA e : e.ev = "next" /\ e.by \in {"handler", "adapter"})

(* C28. A wrapped handler that calls next() itself and then returns, or     *)
(* resolves to, undefined: the adapter calls neither next nor anything on   *)
(* the response, so next is invoked once from that layer, by the handler.   *)
C28_HandlerNextIsTheOnlyNext ==
    (Done /\ Gave /\ h.callsNext /\ h.value = Undefined) =>
        /\ AdapterNext = <<>>
        /\ AdapterResCalls = <<>>
        /\ LayerNextCalls = <<Ev("next", "handler", Undefined)>>

C28_Witness ==
    /\ Done /\ h.mode = "resolve"
    /\ h.callsNext /\ ~h.wrote
    /\ h.value = Undefined
    /\ LayerNextCalls = <<Ev("next", "handler", Undefined)>>
    /\ NotFoundRuns = 1

(* C29. validate.<part> changes its own part of the request only: when the  *)
(* parse succeeds the two other parts, the method and the path stay as they *)
(* are, and when it fails the whole request stays as it is, req[part] with  *)
(* its raw value; no later step of the chain changes the request.           *)
C29_OnlyOwnPartChanges ==
    [][/\ \A p \in (Parts \cup {"method", "originalUrl"}) \ {vpart} :
             req'[p] = req[p]
       /\ (pc = "validate" /\ req[vpart] \notin DOMAIN schema) => req' = req
       /\ pc # "validate" => req' = req]_vars

C29_Witness ==
    /\ pc = "handler"
    /\ vpart = "query"
    /\ schema = [x \in {"raw1"} |-> "parsed1"]
    /\ req.query = "parsed1"
    /\ req.body = "raw2" /\ req.params = "raw2"

====
